---- MODULE Spec2Model ----
(***************************************************************************)
(* A model of paddleocr.js: the Image raster operations, the detection and *)
(* recognition services and the PaddleOcrService pipeline around the two   *)
(* inference sessions.                                                     *)
(*                                                                         *)
(* Numbers.  JavaScript numbers are modelled by integers and by exact      *)
(* fractions num/den.  Math.round is round-half-up, Math.floor is floor.   *)
(* Typed arrays keep their width: a Uint8Array element is % 256, a         *)
(* Uint16Array element % 65536.                                            *)
(***************************************************************************)
EXTENDS Integers, Sequences, FiniteSets, TLC

(***************************************************************************)
(* Arithmetic helpers                                                      *)
(***************************************************************************)
Min(a, b) == IF a < b THEN a ELSE b

Max(a, b) == IF a > b THEN a ELSE b

Abs(a) == IF a < 0 THEN 0 - a ELSE a

\* The function f with every value computed and stored, as an array is
\* (f @@ <<>> is f: the empty function adds nothing).
Stored(f) == f @@ <<>>

\* Math.floor(num / den) for den > 0 (\div is the floored division).
FloorDiv(num, den) == num \div den

\* Math.round(num / den) for den > 0: floor(num/den + 1/2), ties go up.
RoundDiv(num, den) == (2 * num + den) \div (2 * den)

(***************************************************************************)
(* Image (README_zh.md holds the class): width, height, channels and the   *)
(* bytes, a function on 0 .. length-1 as a Uint8Array is.                  *)
(***************************************************************************)
NewImage(width, height, channels, data) ==
    [width |-> width, height |-> height, channels |-> channels, data |-> data]

\* The number of bytes of a buffer.
Length(data) == Cardinality(DOMAIN data)

\* Image.threshold: channel 0 of every pixel against the threshold
\* thrNum/thrDen; a read past the end of the buffer is undefined, and
\* (undefined > threshold) is false.
Threshold(img, thrNum, thrDen) ==
    LET n == img.width * img.height
        At(i) == IF i * img.channels \in DOMAIN img.data
                 THEN img.data[i * img.channels] * thrDen > thrNum
                 ELSE FALSE
    IN  NewImage(img.width, img.height, 1,
                 [i \in 0 .. n - 1 |-> IF At(i) THEN 255 ELSE 0])

\* dilate's INF, as written in the source.
DilateINF == 999999

\* A value stored into a Uint16Array.
Uint16(v) == v % 65536

SetMin(S) == CHOOSE m \in S : \A s \in S : m <= s

SetMax(S) == CHOOSE m \in S : \A s \in S : m >= s

\* The inner dy/dx loops of a dilate sweep at (x, y): the least dist + 1 over
\* the neighbours in rows y + dy, dy \in dys, that lie inside the image,
\* starting from INF.
NeighbourMin(dist, width, height, x, y, dys) ==
    SetMin({DilateINF} \cup
           {dist[(y + dy) * width + (x + dx)] + 1 :
              <<dx, dy>> \in {d \in (-1 .. 1) \X dys :
                                /\ ~(d[1] = 0 /\ d[2] = 0)
                                /\ x + d[1] >= 0 /\ x + d[1] < width
                                /\ y + d[2] >= 0 /\ y + d[2] < height}})

\* One pixel of a sweep: a pixel at distance 0 is skipped, the others take
\* the neighbours' minimum when it is smaller.
SweepAt(dist, width, height, idx, dys) ==
    IF dist[idx] = 0 THEN dist
    ELSE [dist EXCEPT ![idx] =
            Uint16(Min(dist[idx],
                       NeighbourMin(dist, width, height,
                                    idx % width, idx \div width, dys)))]

\* The loop of a sweep over its steps lo .. hi, done in order (first half,
\* then second half).  Step s visits pixel s in the forward sweep
\* (y ascending, x ascending) and pixel n - 1 - s in the reverse sweep.
RECURSIVE Sweep(_, _, _, _, _, _, _)
Sweep(dist, width, height, reverse, dys, lo, hi) ==
    LET n == width * height
        Pixel(s) == IF reverse THEN n - 1 - s ELSE s
    IN  IF Pixel(lo) \notin DOMAIN dist \/ lo > hi THEN dist
        ELSE IF lo = hi THEN SweepAt(dist, width, height, Pixel(lo), dys)
        ELSE Sweep(Sweep(dist, width, height, reverse, dys, lo, (lo + hi) \div 2),
                   width, height, reverse, dys, (lo + hi) \div 2 + 1, hi)

\* The distance map of dilate: initialisation in a Uint16Array, the forward
\* sweep (rows y-1 and y) and the reverse sweep (rows y and y+1).
DilateDist(img) ==
    LET width == img.width
        height == img.height
        initial == Stored([i \in 0 .. width * height - 1 |->
                   IF img.data[i] > 0 THEN 0 ELSE Uint16(DilateINF)])
        fwd == Sweep(initial, width, height, FALSE, {-1, 0}, 0, width * height - 1)
    IN  Sweep(fwd, width, height, TRUE, {0, 1}, 0, width * height - 1)

\* Image.dilate({norm: "LInf", k}) of a single-channel image.
Dilate(img, k) ==
    LET dist == DilateDist(img)
    IN  NewImage(img.width, img.height, 1,
                 Stored([i \in 0 .. img.width * img.height - 1 |->
                           IF dist[i] <= k THEN 255 ELSE 0]))

\* The flood fill of contours over the 4 edge neighbours only.
EdgeOffsets == << <<-1, 0>>, <<1, 0>>, <<0, -1>>, <<0, 1>> >>

\* The 8 neighbour offsets of contours' flood fill, in the order of the source.
ContourOffsets ==
    << <<-1, 0>>, <<1, 0>>, <<0, -1>>, <<0, 1>>,
       <<-1, -1>>, <<1, -1>>, <<-1, 1>>, <<1, 1>> >>

\* The neighbours of (cx, cy) that the flood fill pushes: inside the image,
\* foreground and not yet visited, in the order of ContourOffsets.
FloodPushes(fg, visited, width, height, cx, cy) ==
    LET ok(d) == /\ cx + d[1] >= 0 /\ cx + d[1] < width
                 /\ cy + d[2] >= 0 /\ cy + d[2] < height
                 /\ (cy + d[2]) * width + (cx + d[1]) \in fg
                 /\ (cy + d[2]) * width + (cx + d[1]) \notin visited
        ds == SelectSeq(ContourOffsets, ok)
    IN  [i \in 1 .. Len(ds) |-> <<cx + ds[i][1], cy + ds[i][2]>>]

\* One turn of the while (queue.length) loop of contours.  st holds the
\* queue, the set of visited indices and the running minX, minY, maxX, maxY
\* and area.
FloodPop(fg, width, height, st) ==
    LET cx == Head(st.queue)[1]
        cy == Head(st.queue)[2]
        pushes == FloodPushes(fg, st.visited, width, height, cx, cy)
    IN  [queue |-> Tail(st.queue) \o pushes,
         visited |-> st.visited \cup
                       {pushes[i][2] * width + pushes[i][1] : i \in DOMAIN pushes},
         minX |-> Min(st.minX, cx), minY |-> Min(st.minY, cy),
         maxX |-> Max(st.maxX, cx), maxY |-> Max(st.maxY, cy),
         area |-> st.area + 1]

\* The while (queue.length) loop: at most n turns, stopping when the queue is
\* empty (first half of the turns, then the second half).
RECURSIVE FloodLoop(_, _, _, _, _)
FloodLoop(fg, width, height, st, n) ==
    IF st.queue = <<>> \/ n = 0 THEN st
    ELSE IF n = 1 THEN FloodPop(fg, width, height, st)
    ELSE FloodLoop(fg, width, height,
                   FloodLoop(fg, width, height, st, n \div 2), n - n \div 2)

\* The flood fill of one component: every pixel is queued at most once, so
\* width * height turns empty the queue.
Flood(fg, width, height, st) == FloodLoop(fg, width, height, st, width * height)

\* The row-major scan of contours: the next component starts at the first
\* foreground pixel not yet visited; a component of area >= minArea adds its
\* bounding box.
RECURSIVE ContourScan(_, _, _, _, _, _)
ContourScan(fg, width, height, minArea, visited, boxes) ==
    IF fg \subseteq visited THEN boxes
    ELSE LET start == SetMin(fg \ visited)
             x == start % width
             y == start \div width
             r == Flood(fg, width, height,
                        [queue |-> << <<x, y>> >>, visited |-> visited \cup {start},
                         minX |-> x, minY |-> y, maxX |-> x, maxY |-> y, area |-> 0])
             box == [x |-> r.minX, y |-> r.minY,
                     width |-> r.maxX - r.minX + 1,
                     height |-> r.maxY - r.minY + 1]
         IN  ContourScan(fg, width, height, minArea, r.visited,
                         IF r.area >= minArea THEN Append(boxes, box) ELSE boxes)

\* Image.contours({minArea}): the boxes of the 8-connected components of the
\* non-zero pixels, in discovery order.
Contours(img, minArea) ==
    ContourScan({i \in 0 .. img.width * img.height - 1 : img.data[i] > 0},
                img.width, img.height, minArea, {}, <<>>)

\* Image.crop's bounds check: outside it crop throws.
CropInBounds(img, box) ==
    ~(box.x < 0 \/ box.y < 0 \/ box.x + box.width > img.width
      \/ box.y + box.height > img.height)

\* Image.crop inside the bounds: the pixels of the box, copied channel by
\* channel; a byte the source does not hold stays 0.
Crop(img, box) ==
    NewImage(box.width, box.height, img.channels,
             [d \in 0 .. box.width * box.height * img.channels - 1 |->
                LET c == d % img.channels
                    i == (d \div img.channels) % box.width
                    j == (d \div img.channels) \div box.width
                    srcIndex == ((box.y + j) * img.width + (box.x + i)) * img.channels
                IN  IF srcIndex + c \in DOMAIN img.data THEN img.data[srcIndex + c] ELSE 0])

\* Image.padding once the four margins are resolved: a canvas of 4 bytes per
\* pixel filled with color, the source copied to (left, top) 4 bytes at a
\* time from index (y * width + x) * 4 (subarray stops at the end of the
\* source buffer); the result keeps the source's channel count.
Padding(img, top, bottom, left, right, color) ==
    LET newW == img.width + left + right
        newH == img.height + top + bottom
    IN  NewImage(newW, newH, img.channels,
                 [d \in 0 .. newW * newH * 4 - 1 |->
                    LET c == d % 4
                        x == ((d \div 4) % newW) - left
                        y == ((d \div 4) \div newW) - top
                        srcIdx == (y * img.width + x) * 4
                    IN  IF /\ x >= 0 /\ x < img.width /\ y >= 0 /\ y < img.height
                           /\ srcIdx + c \in DOMAIN img.data
                        THEN img.data[srcIdx + c]
                        ELSE color[c + 1]])

\* The size Image.resize({width, height}) gives its result; an option left
\* out (or 0) is falsy and is computed from the other one, rounded.  With both
\* falsy resize throws (ok is FALSE).
ResizeDims(img, optWidth, optHeight) ==
    IF optWidth = 0 /\ optHeight = 0 THEN [ok |-> FALSE, width |-> 0, height |-> 0]
    ELSE LET width == IF optWidth = 0
                      THEN RoundDiv(img.width * optHeight, img.height)
                      ELSE optWidth
             height == IF optHeight = 0
                       THEN RoundDiv(img.height * width, img.width)
                       ELSE optHeight
         IN  [ok |-> TRUE, width |-> width, height |-> height]

\* The length of the Float32Array Image.tensor returns.
TensorLength(width, height) == width * height * 3

(***************************************************************************)
(* DetectionService (constants.ts holds the class after the defaults).     *)
(* Fractional options are records [num, den] with den > 0.                 *)
(***************************************************************************)
Frac(num, den) == [num |-> num, den |-> den]

\* DEFAULT_DETECTION_OPTIONS.
DefaultPadding == 0

DefaultTextPixelThreshold == Frac(1, 2)

DefaultMinimumAreaThreshold == 20

DefaultPaddingBoxVertical == Frac(2, 5)

DefaultPaddingBoxHorizontal == Frac(3, 5)

\* The fallbacks of applyPaddingToRect's default parameters (option || 0.6,
\* option || 0.8).
FallbackPaddingVertical == Frac(3, 5)

FallbackPaddingHorizontal == Frac(4, 5)

\* DetectionService.calculateResizeDimensions; ratio is maxSideLength over
\* the longer side, the scales are kept as the fractions dst / src.
CalculateResizeDimensions(maxSideLength, srcWidth, srcHeight) ==
    LET longer == IF srcWidth > srcHeight THEN srcWidth ELSE srcHeight
        w0 == FloorDiv(srcWidth * maxSideLength, longer)
        h0 == FloorDiv(srcHeight * maxSideLength, longer)
        dstWidth == IF w0 % 32 # 0 THEN Max(FloorDiv(w0, 32) * 32, 32) ELSE w0
        dstHeight == IF h0 % 32 # 0 THEN Max(FloorDiv(h0, 32) * 32, 32) ELSE h0
    IN  [srcWidth |-> srcWidth, srcHeight |-> srcHeight,
         dstWidth |-> dstWidth, dstHeight |-> dstHeight,
         scaleWidth |-> Frac(dstWidth, srcWidth),
         scaleHeight |-> Frac(dstHeight, srcHeight)]

\* DetectionService.applyPaddingToRect.
ApplyPaddingToRect(rect, maxWidth, maxHeight, optVertical, optHorizontal) ==
    LET paddingVertical == IF optVertical.num = 0 THEN FallbackPaddingVertical
                           ELSE optVertical
        paddingHorizontal == IF optHorizontal.num = 0 THEN FallbackPaddingHorizontal
                             ELSE optHorizontal
        verticalPadding == RoundDiv(rect.height * paddingVertical.num, paddingVertical.den)
        horizontalPadding == RoundDiv(rect.height * paddingHorizontal.num, paddingHorizontal.den)
        x == Max(0, rect.x - horizontalPadding)
        y == Max(0, rect.y - verticalPadding)
        rightEdge == Min(maxWidth, rect.x + rect.width + horizontalPadding)
        bottomEdge == Min(maxHeight, rect.y + rect.height + verticalPadding)
    IN  [x |-> x, y |-> y, width |-> rightEdge - x, height |-> bottomEdge - y]

\* convertToOriginalCoordinates without its Math.min against the source
\* size: the variant C2 is tested against.
ConvertWithoutClamp(rect, resizeParams) ==
    LET sw == resizeParams.scaleWidth
        sh == resizeParams.scaleHeight
    IN  [x |-> Max(0, RoundDiv(rect.x * sw.den, sw.num)),
         y |-> Max(0, RoundDiv(rect.y * sh.den, sh.num)),
         width |-> RoundDiv(rect.width * sw.den, sw.num),
         height |-> RoundDiv(rect.height * sh.den, sh.num)]

\* DetectionService.convertToOriginalCoordinates: v / scale is
\* v * src / dst.
ConvertToOriginalCoordinates(rect, resizeParams) ==
    LET sw == resizeParams.scaleWidth
        sh == resizeParams.scaleHeight
        x == Max(0, RoundDiv(rect.x * sw.den, sw.num))
        y == Max(0, RoundDiv(rect.y * sh.den, sh.num))
        width == Min(resizeParams.srcWidth - x, RoundDiv(rect.width * sw.den, sw.num))
        height == Min(resizeParams.srcHeight - y, RoundDiv(rect.height * sh.den, sh.num))
    IN  [x |-> x, y |-> y, width |-> width, height |-> height]

\* A probability of a detection output given in hundredths.
Percent(v) == Frac(v, 100)

\* new Uint8Array(detection.map((v) => Math.round(v * 255))): one byte per
\* value.
GreyData(detection) ==
    [i \in DOMAIN detection |->
       RoundDiv(detection[i].num * 255, detection[i].den) % 256]

\* The first image steps of postprocessDetection: the grey image, and its
\* threshold at 255 * textPixelThreshold.
ThresholdedImage(detection, dstWidth, dstHeight, textPixelThreshold) ==
    LET greyImage == NewImage(dstWidth, dstHeight, 1, GreyData(detection))
    IN  Threshold(greyImage, 255 * textPixelThreshold.num, textPixelThreshold.den)

\* The image steps of postprocessDetection: grey image, threshold at
\* 255 * textPixelThreshold, dilate with k = 1, contours.
ComponentBoxes(detection, dstWidth, dstHeight, textPixelThreshold, minimumAreaThreshold) ==
    LET thresholdedImage == ThresholdedImage(detection, dstWidth, dstHeight,
                                             textPixelThreshold)
        dilateImage == Dilate(thresholdedImage, 1)
    IN  Contours(dilateImage, minimumAreaThreshold)

\* The boxes.map of postprocessDetection: every component box is padded and
\* taken back to the coordinates of the source image.
FinalBoxes(boxes, resizeParams, options) ==
    [i \in 1 .. Len(boxes) |->
       ConvertToOriginalCoordinates(
         ApplyPaddingToRect(boxes[i], resizeParams.dstWidth, resizeParams.dstHeight,
                            options.paddingBoxVertical, options.paddingBoxHorizontal),
         resizeParams)]

\* The input of the detection session, as preprocessDetection and
\* runInference build it: the resize parameters, the length of the packed
\* tensor and the dims given to new ort.Tensor.
PreprocessDetection(image, options) ==
    LET resizeParams == CalculateResizeDimensions(options.maxSideLength,
                                                  image.width, image.height)
        resized == ResizeDims(image, resizeParams.dstWidth, resizeParams.dstHeight)
    IN  [resizeParams |-> resizeParams,
         resized |-> resized,
         tensorLength |-> TensorLength(resized.width, resized.height),
         dims |-> <<1, 3, resizeParams.dstHeight, resizeParams.dstWidth>>]

\* What the synchronous part of DetectionService.run does before
\* session.run: image.resize throws without a size, and new ort.Tensor
\* throws when the data length is not the product of the dims.
DetectionInputOk(input) ==
    /\ input.resized.ok
    /\ input.tensorLength = input.dims[1] * input.dims[2] * input.dims[3] * input.dims[4]

(***************************************************************************)
(* The detection session's outputs.  A probability map is drawn from a     *)
(* small family: probability 0 everywhere but on at most MaxBlobs of the   *)
(* rectangles of MapRects (each with its own probability, in hundredths). *)
(* The rectangles are laid out in the 32 x 32 map that maxSideLength = 32  *)
(* gives every image.                                                      *)
(***************************************************************************)
MaxSideLength == 32

MaxBlobs == 2

MapRects ==
    { [x |-> 0,  y |-> 0,  width |-> 6,  height |-> 3, prob |-> 100],
      [x |-> 21, y |-> 27, width |-> 11, height |-> 5, prob |-> 50],
      [x |-> 10, y |-> 12, width |-> 8,  height |-> 4, prob |-> 100],
      [x |-> 0,  y |-> 20, width |-> 32, height |-> 3, prob |-> 75],
      [x |-> 25, y |-> 8,  width |-> 2,  height |-> 2, prob |-> 100],
      [x |-> 4,  y |-> 6,  width |-> 9,  height |-> 3, prob |-> 49] }

ProbMaps == {rs \in SUBSET MapRects : Cardinality(rs) <= MaxBlobs}

\* The data of the output tensor for a map of the family, row-major
\* dstHeight x dstWidth.
MapData(rs, dstWidth, dstHeight) ==
    [i \in 0 .. dstWidth * dstHeight - 1 |->
       LET on == {r \in rs : /\ i % dstWidth >= r.x /\ i % dstWidth < r.x + r.width
                             /\ i \div dstWidth >= r.y /\ i \div dstWidth < r.y + r.height}
       IN  Percent(IF on = {} THEN 0 ELSE SetMax({r.prob : r \in on}))]

\* The component boxes of every map of the family in a
\* MaxSideLength x MaxSideLength (32 x 32) image under the default threshold
\* and minimum area, computed once.
ComponentBoxesTable ==
    Stored([rs \in ProbMaps |->
              ComponentBoxes(MapData(rs, 32, 32), 32, 32,
                             DefaultTextPixelThreshold, DefaultMinimumAreaThreshold)])

\* DetectionService.postprocessDetection for the map rs of the family.
PostprocessDetection(rs, input, options) ==
    LET rp == input.resizeParams
        boxes == IF rp.dstWidth = 32 /\ rp.dstHeight = 32
                    /\ options.textPixelThreshold = DefaultTextPixelThreshold
                    /\ options.minimumAreaThreshold = DefaultMinimumAreaThreshold
                 THEN ComponentBoxesTable[rs]
                 ELSE ComponentBoxes(MapData(rs, rp.dstWidth, rp.dstHeight),
                                     rp.dstWidth, rp.dstHeight,
                                     options.textPixelThreshold,
                                     options.minimumAreaThreshold)
    IN  FinalBoxes(boxes, rp, options)

\* What session.run of the detection session may resolve to: a result
\* without the expected output tensor, or one holding a map of the family.
DetectionOutputs ==
    {[found |-> FALSE, map |-> {}]} \cup {[found |-> TRUE, map |-> rs] : rs \in ProbMaps}

\* run without its return on a null detection: the missing tensor is taken
\* as a map that is text everywhere.  The variant C6 is tested against.
DetectionRunWithoutNullCheck(output, input, options) ==
    FinalBoxes(<<[x |-> 0, y |-> 0, width |-> input.resizeParams.dstWidth,
                  height |-> input.resizeParams.dstHeight]>>,
               input.resizeParams, options)

\* DetectionService.run after session.run has returned: without the output
\* tensor runInference returns null and run returns [].
DetectionRunResult(output, input, options) ==
    IF ~output.found THEN <<>>
    ELSE PostprocessDetection(output.map, input, options)

\* The options of a DetectionService: DEFAULT_DETECTION_OPTIONS overridden by
\* the padding and the box paddings given.
DetectionOptions(padding, paddingBox) ==
    [padding |-> padding,
     maxSideLength |-> MaxSideLength,
     textPixelThreshold |-> DefaultTextPixelThreshold,
     minimumAreaThreshold |-> DefaultMinimumAreaThreshold,
     paddingBoxVertical |-> paddingBox[1],
     paddingBoxHorizontal |-> paddingBox[2]]

\* The configured box paddings: the defaults, and both set to 0.
PaddingBoxChoices ==
    { <<DefaultPaddingBoxVertical, DefaultPaddingBoxHorizontal>>,
      <<Frac(0, 1), Frac(0, 1)>> }

\* The configured outer paddings.
MaxPadding == 1

PaddingChoices == 0 .. MaxPadding

(***************************************************************************)
(* RecognitionService (paddle-ocr.ts holds the class after                 *)
(* PaddleOcrService).  A text is the sequence of the glyphs appended to    *)
(* it: appending the empty string appends nothing.  A score is an integer  *)
(* (a fixed multiple of the Float32 value); a confidence is the fraction   *)
(* sum / count, and 0 / 0 is NaN.                                          *)
(***************************************************************************)
\* DEFAULT_RECOGNITION_OPTIONS.imageHeight.
DefaultImageHeight == 48

\* dict[index] || "": an index outside the array reads undefined.  The
\* dictionary is a sequence, dict[index] of the source is its element
\* index + 1.
DictAt(dict, index) ==
    IF index >= 0 /\ index < Len(dict) THEN dict[index + 1] ELSE ""

\* The inner loop of ctcLabelDecode over one time step's slice, from entry
\* index on: a score replaces the maximum only when it is strictly greater.
RECURSIVE ScanSlice(_, _, _, _)
ScanSlice(slice, index, maxScore, maxScoreIndex) ==
    IF index >= Len(slice) THEN [maxScore |-> maxScore, maxScoreIndex |-> maxScoreIndex]
    ELSE IF slice[index + 1] > maxScore
    THEN ScanSlice(slice, index + 1, slice[index + 1], index)
    ELSE ScanSlice(slice, index + 1, maxScore, maxScoreIndex)

\* logits.slice(t * numClasses, (t + 1) * numClasses): the entries that
\* exist in that range.
LogitsSlice(logits, t, numClasses) ==
    LET from == Min(t * numClasses, Length(logits))
        to == Min((t + 1) * numClasses, Length(logits))
    IN  [i \in 1 .. to - from |-> logits[from + i - 1]]

\* One time step of ctcLabelDecode: maxScore starts at 0 and maxScoreIndex
\* at -1.
DecodeStep(logits, t, numClasses) ==
    ScanSlice(LogitsSlice(logits, t, numClasses), 0, 0, -1)

\* The loop of ctcLabelDecode from time step t on; acc holds text and scores.
RECURSIVE DecodeFrom(_, _, _, _, _, _)
DecodeFrom(dict, logits, sequenceLength, numClasses, t, acc) ==
    IF t >= sequenceLength THEN acc
    ELSE LET step == DecodeStep(logits, t, numClasses)
             char == DictAt(dict, step.maxScoreIndex)
         IN  IF step.maxScoreIndex = 0
             THEN DecodeFrom(dict, logits, sequenceLength, numClasses, t + 1, acc)
             ELSE DecodeFrom(dict, logits, sequenceLength, numClasses, t + 1,
                             [text |-> IF char = "" THEN acc.text
                                       ELSE Append(acc.text, char),
                              scores |-> Append(acc.scores, step.maxScore)])

RECURSIVE SeqSum(_)
SeqSum(seq) == IF seq = <<>> THEN 0 ELSE Head(seq) + SeqSum(Tail(seq))

\* RecognitionService.ctcLabelDecode.
CtcLabelDecode(dict, logits, sequenceLength, numClasses) ==
    LET acc == DecodeFrom(dict, logits, sequenceLength, numClasses, 0,
                          [text |-> <<>>, scores |-> <<>>])
    IN  [text |-> acc.text,
         confidence |-> Frac(SeqSum(acc.scores), Len(acc.scores))]

\* The comparator of sortResultsByReadingOrder:
\* |A.y - B.y| < (A.height + B.height) / 4 compares x, else y.
ReadingOrderCompare(a, b) ==
    IF 4 * Abs(a.box.y - b.box.y) < a.box.height + b.box.height
    THEN a.box.x - b.box.x
    ELSE a.box.y - b.box.y

\* A comparator Array.prototype.sort calls consistent on the elements of
\* results (ECMAScript, Array.prototype.sort): equality and order are
\* transitive.  ReadingOrderCompare(b, a) is -ReadingOrderCompare(a, b).
ConsistentCompare(results) ==
    \A i, j, k \in DOMAIN results :
      LET ab == ReadingOrderCompare(results[i], results[j])
          bc == ReadingOrderCompare(results[j], results[k])
          ac == ReadingOrderCompare(results[i], results[k])
      IN  /\ (ab = 0 /\ bc = 0) => ac = 0
          /\ (ab < 0 /\ bc < 0) => ac < 0
          /\ (ab > 0 /\ bc > 0) => ac > 0

\* item inserted into the sorted sequence: behind the last element that
\* does not compare greater than it.
RECURSIVE InsertSorted(_, _)
InsertSorted(sorted, item) ==
    IF sorted = <<>> THEN <<item>>
    ELSE IF ReadingOrderCompare(sorted[Len(sorted)], item) <= 0
    THEN Append(sorted, item)
    ELSE Append(InsertSorted(SubSeq(sorted, 1, Len(sorted) - 1), item),
                sorted[Len(sorted)])

\* The results left in the order they were pushed: the variant C10 is tested
\* against.
Unsorted(results) == results

\* The stable sort of results by ReadingOrderCompare.
RECURSIVE StableSort(_)
StableSort(results) ==
    IF results = <<>> THEN <<>>
    ELSE InsertSorted(StableSort(SubSeq(results, 1, Len(results) - 1)),
                      results[Len(results)])

\* The orders of results: every sequence holding each element once.
Orderings(results) ==
    {[i \in DOMAIN results |-> results[f[i]]] :
       f \in {g \in [DOMAIN results -> DOMAIN results] :
                \A i, j \in DOMAIN results : i # j => g[i] # g[j]}}

\* RecognitionService.sortResultsByReadingOrder: [...results].sort(compare).
\* With a consistent comparator the result is the stable sort; with an
\* inconsistent one ECMAScript leaves the order to the implementation, and
\* every order of the elements is a possible result.
SortResultsByReadingOrder(results) ==
    IF ConsistentCompare(results) THEN {StableSort(results)}
    ELSE Orderings(results)

\* The options of a RecognitionService: DEFAULT_RECOGNITION_OPTIONS
\* overridden by the dictionary given.
RecognitionOptions(dict) ==
    [imageHeight |-> DefaultImageHeight, charactersDictionary |-> dict]

\* processBox up to session.run: the crop, its resize to imageHeight and
\* the dims of the input tensor.
ProcessBoxInput(image, box, options) ==
    IF ~CropInBounds(image, box)
    THEN [ok |-> FALSE, dims |-> <<>>]
    ELSE LET resizedCrop == ResizeDims(Crop(image, box), 0, options.imageHeight)
         IN  [ok |-> resizedCrop.ok,
              dims |-> <<1, 3, resizedCrop.height, resizedCrop.width>>]

\* RecognitionService.run when it reaches valid box i: processBox runs up
\* to session.run (pc "inference"), or throws.  runs counts the session.run
\* calls of this run, dims is the shape of the tensor last fed.
StartBox(run, i, options) ==
    LET input == ProcessBoxInput(run.image, run.validBoxes[i], options)
    IN  IF input.ok
        THEN [run EXCEPT !.pc = "inference", !.index = i,
                         !.dims = input.dims, !.runs = run.runs + 1]
        ELSE [run EXCEPT !.pc = "threw", !.index = i]

\* run calling session.run for all its valid boxes at once, without awaiting
\* each processBox before the next.
RecRunStartAllAtOnce(image, detection, options) ==
    LET validBoxes == SelectSeq(detection,
                                LAMBDA box : box.width > 0 /\ box.height > 0)
        run == [pc |-> "returned", image |-> image, detection |-> detection,
                validBoxes |-> validBoxes,
                index |-> 0, results |-> <<>>, returned |-> <<>>,
                dims |-> <<>>, runs |-> 0]
    IN  IF validBoxes = <<>> THEN run
        ELSE [StartBox(run, 1, options) EXCEPT !.runs = Len(validBoxes)]

\* RecognitionService.run from its call to its first suspension: the valid
\* boxes are filtered; without any the sorted empty list is returned.
RecRunStart(image, detection, options) ==
    LET run == [pc |-> "returned", image |-> image, detection |-> detection,
                validBoxes |-> SelectSeq(detection,
                                         LAMBDA box : box.width > 0 /\ box.height > 0),
                index |-> 0, results |-> <<>>, returned |-> <<>>,
                dims |-> <<>>, runs |-> 0]
    IN  IF run.validBoxes = <<>> THEN run ELSE StartBox(run, 1, options)

\* run when processBox gives no result for the box (the branch of
\* if (result) that pushes nothing): the variant C11 is tested against.
RecRunResumeWithoutPush(run, output, options) ==
    IF ~output.found THEN {[run EXCEPT !.pc = "threw"]}
    ELSE IF run.index < Len(run.validBoxes)
    THEN {StartBox(run, run.index + 1, options)}
    ELSE {[run EXCEPT !.pc = "returned", !.returned = sorted] :
            sorted \in SortResultsByReadingOrder(run.results)}

\* RecognitionService.run when session.run resolves with output: runInference
\* throws without an output tensor; else the box's result is decoded and
\* pushed, and run goes on to the next box or returns the sorted results.
RecRunResume(run, output, options) ==
    IF ~output.found THEN {[run EXCEPT !.pc = "threw"]}
    ELSE LET decoded == CtcLabelDecode(options.charactersDictionary, output.data,
                                       output.dims[2], output.dims[3])
             result == [text |-> decoded.text, box |-> run.validBoxes[run.index],
                        confidence |-> decoded.confidence]
             pushed == [run EXCEPT !.results = Append(run.results, result)]
         IN  IF run.index < Len(run.validBoxes)
             THEN {StartBox(pushed, run.index + 1, options)}
             ELSE {[pushed EXCEPT !.pc = "returned", !.returned = sorted] :
                     sorted \in SortResultsByReadingOrder(pushed.results)}

(***************************************************************************)
(* The recognition session's outputs: a result without an output tensor,   *)
(* or a tensor of dims [1, T, C] whose T * C scores are drawn from a set.  *)
(***************************************************************************)
RecognitionOutput(T, C, data) ==
    [found |-> TRUE, dims |-> <<1, T, C>>, data |-> data]

MissingOutput == [found |-> FALSE, dims |-> <<>>, data |-> <<>>]

\* Every output of T time steps and C classes with scores in values.
OutputsOf(T, C, values) ==
    {RecognitionOutput(T, C, data) : data \in [0 .. T * C - 1 -> values]}

(***************************************************************************)
(* State.                                                                  *)
(*   det   a DetectionService.run call on its own                          *)
(*   rrun  a RecognitionService.run call on its own                        *)
(*   ctc   a ctcLabelDecode call on its own                                *)
(*   unit  a call of one other operation on its own                        *)
(* and a PaddleOcrService with the calls made on it:                       *)
(*   svc       the fields of the service                                   *)
(*   sessions  what the engine has seen of the two inference sessions      *)
(*   init      the initialize() call                                       *)
(*   call      the recognize() call                                        *)
(*   dtor      the destroy() calls                                         *)
(***************************************************************************)
VARIABLES det, rrun, ctc, unit, svc, sessions, init, call, dtor

serviceVars == <<svc, sessions, init, call, dtor>>

vars == <<det, rrun, ctc, unit, serviceVars>>

DetIdle == [pc |-> "idle"]

RecRunIdle == [pc |-> "idle"]

CtcIdle == [pc |-> "idle"]

UnitIdle == [pc |-> "idle"]

\* The options a PaddleOcrService is constructed with.  modelBuffer tells
\* whether the buffer is given; charactersDictionary is the dictionary, if
\* one is given.
ServiceOptions(detectionBuffer, padding, recognitionBuffer, dictGiven, dict) ==
    [detection |-> [modelBuffer |-> detectionBuffer, padding |-> padding],
     recognition |-> [modelBuffer |-> recognitionBuffer,
                      charactersDictionary |-> [given |-> dictGiven, value |-> dict]]]

\* A PaddleOcrService after its constructor: no session, no service.
NewService(options) ==
    [options |-> options,
     detectionSession |-> "null", detectionService |-> "null",
     recognitionSession |-> "null", recognitionService |-> "null"]

\* PaddleOcrService.isInitialized.
IsInitialized(service) ==
    service.detectionSession # "null" /\ service.recognitionSession # "null"

\* The engine's record of a session: whether InferenceSession.create has
\* resolved with it, and the run and release calls made on it.
NoSession == [created |-> FALSE, runs |-> 0, released |-> 0]

NoSessions == [detection |-> NoSession, recognition |-> NoSession]

InitIdle == [pc |-> "idle"]

NoImage == NewImage(0, 0, 0, <<>>)

NoRun == [pc |-> "idle"]

CallIdle ==
    [pc |-> "idle", input |-> [width |-> 0, height |-> 0, data |-> <<>>],
     error |-> "", image |-> NoImage, missingOutput |-> FALSE,
     detection |-> <<>>, run |-> NoRun, result |-> <<>>]

\* calls counts the destroy() calls that have settled, rejected those of them
\* that rejected; initialized tells whether the service was initialized at
\* every destroy() call made so far.
DtorIdle == [pc |-> "idle", calls |-> 0, rejected |-> 0, initialized |-> TRUE]

\* No service is in play (the specifications of the single operations).
ServiceUnused ==
    /\ svc = NewService(ServiceOptions(FALSE, 0, FALSE, FALSE, <<>>))
    /\ sessions = NoSessions
    /\ init = InitIdle
    /\ call = CallIdle
    /\ dtor = DtorIdle

(***************************************************************************)
(* DetectionService.run on an image of every size of DetSizes.             *)
(***************************************************************************)
DetSizes == {1, 2, 3, 20, 32, 48, 100}

DetStart ==
    {[pc |-> "start", image |-> [width |-> w, height |-> h],
      options |-> DetectionOptions(DefaultPadding, pb)] :
        w \in DetSizes, h \in DetSizes, pb \in PaddingBoxChoices}

\* run up to session.run: preprocessDetection and the input tensor.
DetRunCall ==
    /\ det.pc = "start"
    /\ LET input == PreprocessDetection(det.image, det.options)
       IN  det' = [pc |-> IF DetectionInputOk(input) THEN "inference" ELSE "threw",
                   image |-> det.image, options |-> det.options,
                   input |-> input, boxes |-> <<>>]
    /\ UNCHANGED <<rrun, ctc, unit, serviceVars>>

\* session.run resolves: runInference picks the output and run returns the
\* boxes of postprocessDetection.
DetRunReturn ==
    /\ det.pc = "inference"
    /\ \E output \in DetectionOutputs :
         det' = [det EXCEPT !.pc = "returned",
                            !.boxes = DetectionRunResult(output, det.input, det.options)]
    /\ UNCHANGED <<rrun, ctc, unit, serviceVars>>

\* session.run rejects: the failure surfaces from run.
DetRunFail ==
    /\ det.pc = "inference"
    /\ det' = [det EXCEPT !.pc = "threw"]
    /\ UNCHANGED <<rrun, ctc, unit, serviceVars>>

InitDet ==
    /\ det \in DetStart
    /\ rrun = RecRunIdle /\ ctc = CtcIdle /\ unit = UnitIdle /\ ServiceUnused

NextDet == DetRunCall \/ DetRunReturn \/ DetRunFail

SpecDet == InitDet /\ [][NextDet]_vars

(***************************************************************************)
(* RecognitionService.run on a 3 x 5 RGBA image with every list of at most *)
(* MaxBoxes of the boxes of RecBoxes.                                      *)
(***************************************************************************)
MaxBoxes == 3

Box(x, y, width, height) == [x |-> x, y |-> y, width |-> width, height |-> height]

RecImage == NewImage(3, 5, 4, [i \in 0 .. 3 * 5 * 4 - 1 |-> 0])

\* Boxes inside the image, one of width 0, one reaching outside the image.
RecBoxes ==
    {Box(x, y, 1, 3) : x \in 0 .. 2, y \in 0 .. 2}
      \cup {Box(1, y, 1, 1) : y \in 0 .. 2}
      \cup {Box(0, 0, 0, 1), Box(3, 0, 1, 1)}

BoxLists == UNION {[1 .. n -> RecBoxes] : n \in 0 .. MaxBoxes}

RecDict == <<"_", "a", "b">>

\* What session.run of the recognition session resolves to in a run.
RecRunOutputs ==
    {MissingOutput,
     RecognitionOutput(2, 3, [i \in 0 .. 5 |-> <<0, 2, 1, 0, 1, 3>>[i + 1]])}

RecRunCall ==
    /\ rrun.pc = "start"
    /\ rrun' = RecRunStart(rrun.image, rrun.detection, RecognitionOptions(RecDict))
    /\ UNCHANGED <<det, ctc, unit, serviceVars>>

RecRunReturn ==
    /\ rrun.pc = "inference"
    /\ \E output \in RecRunOutputs :
         rrun' \in RecRunResume(rrun, output, RecognitionOptions(RecDict))
    /\ UNCHANGED <<det, ctc, unit, serviceVars>>

\* session.run rejects: the failure surfaces from run.
RecRunFail ==
    /\ rrun.pc = "inference"
    /\ rrun' = [rrun EXCEPT !.pc = "threw"]
    /\ UNCHANGED <<det, ctc, unit, serviceVars>>

InitRec ==
    /\ rrun \in {[pc |-> "start", image |-> RecImage, detection |-> boxes] :
                   boxes \in BoxLists}
    /\ det = DetIdle /\ ctc = CtcIdle /\ unit = UnitIdle /\ ServiceUnused

NextRec == RecRunCall \/ RecRunReturn \/ RecRunFail

SpecRec == InitRec /\ [][NextRec]_vars

(***************************************************************************)
(* ctcLabelDecode on every output of at most MaxSteps time steps with      *)
(* scores in CtcScores, under a dictionary as loaded (one entry per        *)
(* non-blank class) and one with an entry for the blank in front.          *)
(***************************************************************************)
MaxSteps == 2

CtcClasses == 3

CtcScores == {-1, 0, 1, 2}

Glyphs == <<"a", "b", "c", "d", "e">>

\* The dictionary as the example loads it: one glyph per non-blank class.
LoadedDict == SubSeq(Glyphs, 1, CtcClasses - 1)

\* The loaded dictionary with an entry for the blank in front.
BlankFirstDict == <<"_">> \o LoadedDict

CtcDicts == {LoadedDict, BlankFirstDict}

CtcDecode ==
    /\ ctc.pc = "start"
    /\ ctc' = [ctc EXCEPT !.pc = "done",
                          !.result = CtcLabelDecode(ctc.dict, ctc.output.data,
                                                    ctc.output.dims[2], ctc.output.dims[3])]
    /\ UNCHANGED <<det, rrun, unit, serviceVars>>

InitCtc ==
    /\ \E dict \in CtcDicts, T \in 1 .. MaxSteps :
         \E data \in [0 .. T * CtcClasses - 1 -> CtcScores] :
           ctc = [pc |-> "start", dict |-> dict,
                  output |-> RecognitionOutput(T, CtcClasses, data),
                  result |-> [text |-> <<>>, confidence |-> Frac(0, 0)]]
    /\ det = DetIdle /\ rrun = RecRunIdle /\ unit = UnitIdle /\ ServiceUnused

NextCtc == CtcDecode

SpecCtc == InitCtc /\ [][NextCtc]_vars

(***************************************************************************)
(* PaddleOcrService: one initialize() call, one recognize() call and up to *)
(* MaxDestroys destroy() calls on a service, interleaved at their awaits.  *)
(***************************************************************************)
MaxDestroys == 2

\* The options of the DetectionService of a service: its detection options
\* over DEFAULT_DETECTION_OPTIONS.
ServiceDetectionOptions(service) ==
    DetectionOptions(service.options.detection.padding,
                     <<DefaultPaddingBoxVertical, DefaultPaddingBoxHorizontal>>)

\* The options of the RecognitionService of a service: without a dictionary
\* given, the empty one of DEFAULT_RECOGNITION_OPTIONS.
ServiceRecognitionOptions(service) ==
    LET dict == service.options.recognition.charactersDictionary
    IN  RecognitionOptions(IF dict.given THEN dict.value ELSE <<>>)

ServiceConfigs ==
    {ServiceOptions(db, p, rb, dg, RecDict) :
       db \in BOOLEAN, p \in PaddingChoices, rb \in BOOLEAN, dg \in BOOLEAN}

\* initialize() up to its first await: the detection buffer is checked and
\* InferenceSession.create is called.
Initialize ==
    /\ init.pc = "idle"
    /\ init' = [pc |-> IF svc.options.detection.modelBuffer
                       THEN "createDetection" ELSE "rejected"]
    /\ UNCHANGED <<det, rrun, ctc, unit, svc, sessions, call, dtor>>

\* The detection session is created: session and service are stored, the
\* recognition buffer is checked and InferenceSession.create is called.
InitializeDetection ==
    /\ init.pc = "createDetection"
    /\ svc' = [svc EXCEPT !.detectionSession = "detection",
                          !.detectionService = "DetectionService"]
    /\ sessions' = [sessions EXCEPT !.detection.created = TRUE]
    /\ init' = [pc |-> IF svc.options.recognition.modelBuffer
                       THEN "createRecognition" ELSE "rejected"]
    /\ UNCHANGED <<det, rrun, ctc, unit, call, dtor>>

\* The recognition session is created: session and service are stored, and
\* then the dictionary is checked.
InitializeRecognition ==
    /\ init.pc = "createRecognition"
    /\ svc' = [svc EXCEPT !.recognitionSession = "recognition",
                          !.recognitionService = "RecognitionService"]
    /\ sessions' = [sessions EXCEPT !.recognition.created = TRUE]
    /\ init' = [pc |-> IF svc.options.recognition.charactersDictionary.given
                       THEN "resolved" ELSE "rejected"]
    /\ UNCHANGED <<det, rrun, ctc, unit, call, dtor>>

\* InferenceSession.create rejects: initialize() rejects at that await.
InitializeCreateFail ==
    /\ init.pc \in {"createDetection", "createRecognition"}
    /\ init' = [pc |-> "rejected"]
    /\ UNCHANGED <<det, rrun, ctc, unit, svc, sessions, call, dtor>>

\* An ImageInput whose data holds length bytes.
ImageInput(width, height, length) ==
    [width |-> width, height |-> height, data |-> [i \in 0 .. length - 1 |-> 0]]

\* The inputs of recognize: 4 x 4 images of 1, 2, 3 and 4 channels, of 5
\* channels, of a length no whole number of channels gives and of no data,
\* and images without pixels.
RecognizeInputs ==
    {ImageInput(4, 4, length) : length \in {0, 16, 24, 32, 48, 64, 80}}
      \cup {ImageInput(0, 4, 0), ImageInput(4, 0, 8)}

\* The check of recognize without its upper limit on channels: the variant
\* C3 is tested against.
ValidChannelsWithoutLimit(input) ==
    /\ input.width * input.height # 0
    /\ Length(input.data) % (input.width * input.height) = 0
    /\ Length(input.data) \div (input.width * input.height) >= 1

\* The check of recognize on channels = data.length / (width * height):
\* Number.isInteger(channels) and 1 <= channels <= 4.  With width * height
\* = 0 the quotient is Infinity or NaN, no integer.
ValidChannels(input) ==
    /\ input.width * input.height # 0
    /\ Length(input.data) % (input.width * input.height) = 0
    /\ Length(input.data) \div (input.width * input.height) \in 1 .. 4

\* The image recognize hands to detection and recognition: the input, and
\* around it the white padding if options.detection.padding is truthy.
RecognizeImage(input, padding) ==
    LET image == NewImage(input.width, input.height,
                          Length(input.data) \div (input.width * input.height),
                          input.data)
    IN  IF padding # 0
        THEN Padding(image, padding, padding, padding, padding, <<255, 255, 255, 255>>)
        ELSE image

\* The recognize call once recognitionService.run has reached the state run.
RecognizeWithRun(c, run) ==
    [c EXCEPT !.run = run,
              !.pc = CASE run.pc = "inference" -> "recognition"
                       [] run.pc = "returned" -> "resolved"
                       [] OTHER -> "rejected",
              !.error = IF run.pc = "threw" THEN "failed" ELSE "",
              !.result = IF run.pc = "returned" THEN run.returned ELSE <<>>]

\* recognize(input) up to its first await: the services and the input are
\* checked, the image is built and padded, and detectionService.run goes up
\* to session.run.
Recognize ==
    /\ call.pc = "idle"
    /\ \E input \in RecognizeInputs :
         IF svc.detectionService = "null" \/ svc.recognitionService = "null"
         THEN /\ call' = [call EXCEPT !.pc = "rejected", !.input = input,
                                      !.error = "notInitialized"]
              /\ UNCHANGED sessions
         ELSE IF ~ValidChannels(input)
         THEN /\ call' = [call EXCEPT !.pc = "rejected", !.input = input,
                                      !.error = "invalidInput"]
              /\ UNCHANGED sessions
         ELSE LET image == RecognizeImage(input, svc.options.detection.padding)
                  detectionInput == PreprocessDetection(image, ServiceDetectionOptions(svc))
              IN  IF DetectionInputOk(detectionInput)
                  THEN /\ call' = [call EXCEPT !.pc = "detection", !.input = input,
                                               !.image = image]
                       /\ sessions' = [sessions EXCEPT !.detection.runs = @ + 1]
                  ELSE /\ call' = [call EXCEPT !.pc = "rejected", !.input = input,
                                               !.image = image, !.error = "failed"]
                       /\ UNCHANGED sessions
    /\ UNCHANGED <<det, rrun, ctc, unit, svc, init, dtor>>

\* The detection session's run resolves: detectionService.run returns its
\* boxes and recognitionService.run goes up to its first session.run, or
\* returns at once without a valid box.
RecognizeDetectionReturn ==
    /\ call.pc = "detection"
    /\ \E output \in DetectionOutputs :
         LET options == ServiceDetectionOptions(svc)
             detection == DetectionRunResult(output,
                                             PreprocessDetection(call.image, options),
                                             options)
             run == RecRunStart(call.image, detection, ServiceRecognitionOptions(svc))
         IN  /\ call' = RecognizeWithRun([call EXCEPT !.detection = detection,
                                                      !.missingOutput = ~output.found],
                                         run)
             /\ sessions' = [sessions EXCEPT !.recognition.runs = @ + run.runs]
    /\ UNCHANGED <<det, rrun, ctc, unit, svc, init, dtor>>

\* The recognition session's run resolves: the box is decoded and
\* recognitionService.run goes on to the next box, or returns.
RecognizeRecognitionReturn ==
    /\ call.pc = "recognition"
    /\ \E output \in RecRunOutputs :
         \E run \in RecRunResume(call.run, output, ServiceRecognitionOptions(svc)) :
           /\ call' = RecognizeWithRun(call, run)
           /\ sessions' = [sessions EXCEPT
                             !.recognition.runs = @ + run.runs - call.run.runs]
    /\ UNCHANGED <<det, rrun, ctc, unit, svc, init, dtor>>

\* A session's run rejects: recognize rejects at that await.
RecognizeRunFail ==
    /\ call.pc \in {"detection", "recognition"}
    /\ call' = [call EXCEPT !.pc = "rejected", !.error = "failed"]
    /\ UNCHANGED <<det, rrun, ctc, unit, svc, sessions, init, dtor>>

\* destroy() up to its first await: detectionSession?.release().
Destroy ==
    /\ dtor.pc = "idle"
    /\ dtor.calls < MaxDestroys
    /\ dtor' = [dtor EXCEPT !.pc = "releaseDetection",
                            !.initialized = @ /\ IsInitialized(svc)]
    /\ sessions' = IF svc.detectionSession # "null"
                   THEN [sessions EXCEPT !.detection.released = @ + 1]
                   ELSE sessions
    /\ UNCHANGED <<det, rrun, ctc, unit, svc, init, call>>

\* The first await of destroy() is over: recognitionSession?.release().
DestroyDetectionReleased ==
    /\ dtor.pc = "releaseDetection"
    /\ dtor' = [dtor EXCEPT !.pc = "releaseRecognition"]
    /\ sessions' = IF svc.recognitionSession # "null"
                   THEN [sessions EXCEPT !.recognition.released = @ + 1]
                   ELSE sessions
    /\ UNCHANGED <<det, rrun, ctc, unit, svc, init, call>>

\* The second await of destroy() is over: destroy() resolves.
DestroyRecognitionReleased ==
    /\ dtor.pc = "releaseRecognition"
    /\ dtor' = [dtor EXCEPT !.pc = "idle", !.calls = @ + 1]
    /\ UNCHANGED <<det, rrun, ctc, unit, svc, sessions, init, call>>

\* A release() that was called rejects: destroy() rejects at that await.
DestroyReleaseFail ==
    /\ \/ dtor.pc = "releaseDetection" /\ svc.detectionSession # "null"
       \/ dtor.pc = "releaseRecognition" /\ svc.recognitionSession # "null"
    /\ dtor' = [dtor EXCEPT !.pc = "idle", !.calls = @ + 1, !.rejected = @ + 1]
    /\ UNCHANGED <<det, rrun, ctc, unit, svc, sessions, init, call>>

Init ==
    /\ svc \in {NewService(options) : options \in ServiceConfigs}
    /\ sessions = NoSessions
    /\ init = InitIdle
    /\ call = CallIdle
    /\ dtor = DtorIdle
    /\ det = DetIdle /\ rrun = RecRunIdle /\ ctc = CtcIdle /\ unit = UnitIdle

Next ==
    \/ Initialize
    \/ InitializeDetection
    \/ InitializeRecognition
    \/ InitializeCreateFail
    \/ Recognize
    \/ RecognizeDetectionReturn
    \/ RecognizeRecognitionReturn
    \/ RecognizeRunFail
    \/ Destroy
    \/ DestroyDetectionReleased
    \/ DestroyRecognitionReleased
    \/ DestroyReleaseFail

Spec == Init /\ [][Next]_vars

(***************************************************************************)
(* Properties of DetectionService.run (SpecDet).                           *)
(***************************************************************************)

\* box lies inside an image of the given size.
BoxInside(box, width, height) ==
    /\ box.x >= 0 /\ box.y >= 0
    /\ box.x + box.width <= width
    /\ box.y + box.height <= height

\* C2: every box DetectionService.run returns lies inside the image passed
\* to run: 0 <= x, 0 <= y, x + width <= srcW and y + height <= srcH, so that
\* Image.crop of that image with that box stays in bounds.
C2_BoxesInsideSource ==
    det.pc = "returned" =>
      \A i \in DOMAIN det.boxes :
        /\ BoxInside(det.boxes[i], det.image.width, det.image.height)
        /\ CropInBounds(det.image, det.boxes[i])

\* C2 at work: run has returned a box that the clamp cut at the right or the
\* bottom edge of the source image (its unclamped size reaches further).
C2_ClampedBoxReturned ==
    /\ det.pc = "returned"
    /\ \E i \in DOMAIN det.boxes :
         /\ det.boxes[i].width > 0 /\ det.boxes[i].height > 0
         /\ \/ det.boxes[i].x + det.boxes[i].width = det.image.width
            \/ det.boxes[i].y + det.boxes[i].height = det.image.height
    /\ \E rs \in ProbMaps :
         LET rp == det.input.resizeParams
             boxes == ComponentBoxesTable[rs]
         IN  /\ rp.dstWidth = 32 /\ rp.dstHeight = 32
             /\ det.boxes = FinalBoxes(boxes, rp, det.options)
             /\ \E i \in DOMAIN boxes :
                  ~BoxInside(ConvertWithoutClamp(
                               ApplyPaddingToRect(boxes[i], 32, 32,
                                                  det.options.paddingBoxVertical,
                                                  det.options.paddingBoxHorizontal), rp),
                             det.image.width, det.image.height)

(***************************************************************************)
(* Properties of PaddleOcrService (Spec).                                  *)
(***************************************************************************)

\* The recognize call was made with an RGBA input: 4 bytes per pixel.
RgbaInput ==
    /\ call.input.width * call.input.height > 0
    /\ Length(call.input.data) = 4 * call.input.width * call.input.height

\* C1: for an RGBA input and every configured padding p >= 0, each box of
\* the list recognize returns is in the coordinates of the caller's input
\* image: x >= 0, y >= 0, x + width <= input.width, y + height <= input.height.
C1_BoxesInInputCoordinates ==
    (init.pc = "resolved" /\ call.pc = "resolved" /\ RgbaInput) =>
      \A i \in DOMAIN call.result :
        BoxInside(call.result[i].box, call.input.width, call.input.height)

\* data.length / (width * height) is an integer in {1, 2, 3, 4}.
ChannelsInRange(input) ==
    \E channels \in 1 .. 4 :
      /\ input.width * input.height # 0
      /\ Length(input.data) = channels * input.width * input.height

MissingOption ==
    \/ ~svc.options.detection.modelBuffer
    \/ ~svc.options.recognition.modelBuffer
    \/ ~svc.options.recognition.charactersDictionary.given

\* C4: with detection.modelBuffer, recognition.modelBuffer or
\* recognition.charactersDictionary missing, initialize() rejects and leaves
\* the service not initialized: isInitialized() is false and a recognize()
\* that follows is rejected as not initialized.
C4_MissingOptionLeavesUninitialized ==
    (MissingOption /\ init.pc \in {"resolved", "rejected"}) =>
      /\ init.pc = "rejected"
      /\ ~IsInitialized(svc)
      /\ call.pc # "idle" => call.error = "notInitialized"

\* C5: after any number (>= 1) of destroy() calls on an initialized service,
\* each of the two sessions has been released exactly once.
C5_SessionsReleasedOnce ==
    (/\ init.pc = "resolved"
     /\ dtor.pc = "idle" /\ dtor.calls >= 1 /\ dtor.initialized /\ dtor.rejected = 0) =>
      /\ sessions.detection.released = 1
      /\ sessions.recognition.released = 1

\* C6: when the detection session's result lacks the output tensor,
\* DetectionService.run returns the empty list without raising, and
\* recognize resolves to the empty list, the recognition session never run.
C6_MissingOutputGivesEmptyResult ==
    call.missingOutput =>
      /\ call.detection = <<>>
      /\ call.pc = "resolved" /\ call.error = ""
      /\ call.result = <<>>
      /\ sessions.recognition.runs = 0

\* C6 at work: recognize has resolved after a detection result without the
\* output tensor.
C6_ResolvedAfterMissingOutput ==
    /\ call.missingOutput
    /\ call.pc = "resolved"
    /\ sessions.detection.runs = 1

(***************************************************************************)
(* Properties of ctcLabelDecode (SpecCtc).                                 *)
(***************************************************************************)

CtcSteps == ctc.output.dims[2]

\* The scores of time step t (from 0), by class.
CtcRow(t) == [c \in 0 .. CtcClasses - 1 |-> ctc.output.data[t * CtcClasses + c]]

\* The greatest score of time step t and the first class that has it.
CtcMax(t) == SetMax({CtcRow(t)[c] : c \in 0 .. CtcClasses - 1})

CtcArgMax(t) == SetMin({c \in 0 .. CtcClasses - 1 : CtcRow(t)[c] = CtcMax(t)})

\* The decoded confidence is the fraction num / den.
ConfidenceIs(num, den) ==
    /\ ctc.result.confidence.den # 0
    /\ ctc.result.confidence.num * den = num * ctc.result.confidence.den

\* C7: when the argmax is the same non-zero class i at all T steps, the
\* decoded text is dict[i] repeated T times and the confidence is the mean
\* of the T per-step maximum scores.
C7_ConstantClassRepeated ==
    ctc.pc = "done" =>
      \A i \in 1 .. CtcClasses - 1 :
        (i < Len(ctc.dict) /\ \A t \in 0 .. CtcSteps - 1 : CtcArgMax(t) = i) =>
          /\ ctc.result.text = [t \in 1 .. CtcSteps |-> ctc.dict[i + 1]]
          /\ ConfidenceIs(SeqSum([t \in 1 .. CtcSteps |-> CtcMax(t - 1)]), CtcSteps)

\* C8: when the argmax is class 0 at every step, whatever the sign of the
\* scores, the decoded text is empty and the confidence is NaN (0 / 0): no
\* step contributes a character or a score.
C8_AllBlankGivesNaN ==
    (ctc.pc = "done" /\ \A t \in 0 .. CtcSteps - 1 : CtcArgMax(t) = 0) =>
      /\ ctc.result.text = <<>>
      /\ ctc.result.confidence = Frac(0, 0)

\* The non-blank classes of the argmax, step by step.
CtcEmittedClasses ==
    SelectSeq([t \in 1 .. CtcSteps |-> CtcArgMax(t - 1)], LAMBDA c : c # 0)

\* C9: with the dictionary of length C - 1 as loaded, a step whose argmax
\* is class c, 1 <= c <= C - 1, emits the entry at index c - 1 (here for
\* outputs whose maximum is positive at every step).
C9_ClassEmitsPreviousEntry ==
    (/\ ctc.pc = "done" /\ ctc.dict = LoadedDict
     /\ \A t \in 0 .. CtcSteps - 1 : CtcMax(t) > 0) =>
      ctc.result.text =
        [k \in DOMAIN CtcEmittedClasses |-> LoadedDict[CtcEmittedClasses[k]]]

(***************************************************************************)
(* Properties of RecognitionService.run (SpecRec).                         *)
(***************************************************************************)

\* The pair rule of the reading order for a box a placed before a box b.
PairInReadingOrder(a, b) ==
    IF 4 * Abs(a.y - b.y) < a.height + b.height THEN a.x <= b.x ELSE a.y <= b.y

\* Every pair of the returned list obeys the pair rule.
ReturnedInReadingOrder ==
    \A i, j \in DOMAIN rrun.returned :
      i < j => PairInReadingOrder(rrun.returned[i].box, rrun.returned[j].box)

\* C10 as stated: in the list run returns, every pair A before B obeys the
\* pair rule, for every set of input boxes.
C10_EveryPairInReadingOrder ==
    rrun.pc = "returned" => ReturnedInReadingOrder

\* C10 amended: in the list run returns, every pair A before B obeys the
\* pair rule whenever the pair rule is a consistent order on the boxes
\* recognized (transitive, its ties too).
C10_PairsInOrderWhenConsistent ==
    (rrun.pc = "returned" /\ ConsistentCompare(rrun.results)) => ReturnedInReadingOrder

\* C10 at work: run has returned several results in an order that differs
\* from the order of detection, the pair rule being consistent on them.
C10_SortedReturn ==
    /\ rrun.pc = "returned"
    /\ Len(rrun.returned) >= 3
    /\ ConsistentCompare(rrun.results)
    /\ rrun.returned # rrun.results

\* How many elements of the sequence of boxes equal box.
CountOf(boxes, box) == Cardinality({i \in DOMAIN boxes : boxes[i] = box})

\* C11: run returns exactly one result per input box with width > 0 and
\* height > 0, carrying that box unchanged, and none for a dropped box: the
\* multiset of result boxes is the multiset of valid input boxes.
C11_OneResultPerValidBox ==
    rrun.pc = "returned" =>
      LET valid == SelectSeq(rrun.detection,
                             LAMBDA box : box.width > 0 /\ box.height > 0)
          returnedBoxes == [i \in DOMAIN rrun.returned |-> rrun.returned[i].box]
      IN  /\ Len(returnedBoxes) = Len(valid)
          /\ \A box \in RecBoxes : CountOf(returnedBoxes, box) = CountOf(valid, box)

\* C11 at work: run has returned two results for a detection of three boxes,
\* one of them dropped for its width of 0, in another order than detected.
C11_ReturnedWithDroppedBox ==
    /\ rrun.pc = "returned"
    /\ Len(rrun.detection) = 3
    /\ Len(rrun.returned) = 2
    /\ \E i \in DOMAIN rrun.detection : rrun.detection[i].width = 0
    /\ rrun.returned # rrun.results

(***************************************************************************)
(* PaddleOcrService.processRecognition.  A text is the sequence of its     *)
(* glyphs; the separators are the glyphs " " and "\n".                     *)
(***************************************************************************)

\* The sum of two confidences; NaN (0 / 0) makes the sum NaN.
FracAdd(a, b) ==
    IF a.den = 0 \/ b.den = 0 THEN Frac(0, 0)
    ELSE Frac(a.num * b.den + b.num * a.den, a.den * b.den)

\* recognition.reduce((sum, r) => sum + r.confidence, 0) over the first n.
RECURSIVE TotalConfidence(_, _)
TotalConfidence(recognition, n) ==
    IF n = 0 THEN Frac(0, 1)
    ELSE FracAdd(TotalConfidence(recognition, n - 1), recognition[n].confidence)

\* currentLine.reduce((sum, r) => sum + r.box.height, 0) / currentLine.length
LineAvgHeight(currentLine) ==
    Frac(SeqSum([k \in DOMAIN currentLine |-> currentLine[k].box.height]),
         Len(currentLine))

\* The loop of processRecognition comparing with the height of the line's
\* first item only: avgHeight is not updated when an item joins the line.
GroupStepFirstHeight(recognition, i, st) ==
    LET current == recognition[i]
        previous == recognition[i - 1]
        verticalGap == Abs(current.box.y - previous.box.y)
    IN  IF 2 * verticalGap * st.avgHeight.den <= st.avgHeight.num
        THEN [lines |-> st.lines,
              currentLine |-> Append(st.currentLine, current),
              fullText |-> st.fullText \o <<" ">> \o current.text,
              avgHeight |-> st.avgHeight]
        ELSE [lines |-> Append(st.lines, st.currentLine),
              currentLine |-> <<current>>,
              fullText |-> st.fullText \o <<"\n">> \o current.text,
              avgHeight |-> Frac(current.box.height, 1)]

\* One turn of the for loop of processRecognition, for item i (from 2; the
\* source counts from 1).  verticalGap <= avgHeight * 0.5 is
\* 2 * verticalGap * den <= num for avgHeight = num / den.
GroupStep(recognition, i, st) ==
    LET current == recognition[i]
        previous == recognition[i - 1]
        verticalGap == Abs(current.box.y - previous.box.y)
    IN  IF 2 * verticalGap * st.avgHeight.den <= st.avgHeight.num
        THEN [lines |-> st.lines,
              currentLine |-> Append(st.currentLine, current),
              fullText |-> st.fullText \o <<" ">> \o current.text,
              avgHeight |-> LineAvgHeight(Append(st.currentLine, current))]
        ELSE [lines |-> Append(st.lines, st.currentLine),
              currentLine |-> <<current>>,
              fullText |-> st.fullText \o <<"\n">> \o current.text,
              avgHeight |-> Frac(current.box.height, 1)]

\* The for loop of processRecognition up to item i.
RECURSIVE GroupLoop(_, _)
GroupLoop(recognition, i) ==
    IF i = 1
    THEN [lines |-> <<>>, currentLine |-> <<recognition[1]>>,
          fullText |-> recognition[1].text,
          avgHeight |-> Frac(recognition[1].box.height, 1)]
    ELSE GroupStep(recognition, i, GroupLoop(recognition, i - 1))

\* processRecognition without the push of the last line after the loop.
ProcessRecognitionWithoutLastLine(recognition) ==
    IF Len(recognition) = 0
    THEN [text |-> <<>>, lines |-> <<>>, confidence |-> Frac(0, 1)]
    ELSE LET total == TotalConfidence(recognition, Len(recognition))
             st == GroupLoop(recognition, Len(recognition))
         IN  [text |-> st.fullText, lines |-> st.lines,
              confidence |-> Frac(total.num, total.den * Len(recognition))]

\* PaddleOcrService.processRecognition.
ProcessRecognition(recognition) ==
    IF Len(recognition) = 0
    THEN [text |-> <<>>, lines |-> <<>>, confidence |-> Frac(0, 1)]
    ELSE LET total == TotalConfidence(recognition, Len(recognition))
             st == GroupLoop(recognition, Len(recognition))
         IN  [text |-> st.fullText,
              lines |-> IF Len(st.currentLine) > 0
                        THEN Append(st.lines, st.currentLine) ELSE st.lines,
              confidence |-> Frac(total.num, total.den * Len(recognition))]

(***************************************************************************)
(* processRecognition on every sequence of at most MaxItems results whose  *)
(* boxes have their y in ItemYs and their height in ItemHeights.           *)
(***************************************************************************)
MaxItems == 3

ItemYs == {10, 12, 16, 40}

ItemHeights == {2, 4, 20}

ItemTexts == {<<"a">>, <<"b", "c">>}

Items ==
    {[text |-> text, box |-> Box(0, y, 30, h), confidence |-> Frac(1, 2)] :
       text \in ItemTexts, y \in ItemYs, h \in ItemHeights}

ProcessRecognitionCall ==
    /\ unit.pc = "start" /\ unit.name = "processRecognition"
    /\ unit' = [unit EXCEPT !.pc = "done",
                            !.result = ProcessRecognition(unit.recognition)]
    /\ UNCHANGED <<det, rrun, ctc, serviceVars>>

InitLines ==
    /\ \E n \in 0 .. MaxItems : \E recognition \in [1 .. n -> Items] :
         unit = [pc |-> "start", name |-> "processRecognition",
                 recognition |-> recognition,
                 result |-> ProcessRecognition(<<>>)]
    /\ det = DetIdle /\ rrun = RecRunIdle /\ ctc = CtcIdle /\ ServiceUnused

NextLines == ProcessRecognitionCall

SpecLines == InitLines /\ [][NextLines]_vars

\* The lines of a result, one after the other.
RECURSIVE Flatten(_)
Flatten(lines) ==
    IF lines = <<>> THEN <<>> ELSE Head(lines) \o Flatten(Tail(lines))

\* The number of items in the first n lines.
RECURSIVE ItemsBefore(_, _)
ItemsBefore(lines, n) ==
    IF n = 0 THEN 0 ELSE ItemsBefore(lines, n - 1) + Len(lines[n])

\* The line that holds item i of the input.
LineOf(lines, i) ==
    CHOOSE n \in DOMAIN lines :
      ItemsBefore(lines, n - 1) < i /\ i <= ItemsBefore(lines, n)

\* Item i is close to item i - 1: the gap of their y is at most half the
\* mean height of the items from first to i - 1.
CloseToPrevious(recognition, first, i) ==
    2 * Abs(recognition[i].box.y - recognition[i - 1].box.y) * (i - first)
      <= SeqSum([k \in 1 .. i - first |-> recognition[first + k - 1].box.height])

\* The text of items 1 .. i joined as the lines say.
RECURSIVE JoinedText(_, _, _)
JoinedText(recognition, lines, i) ==
    IF i = 1 THEN recognition[1].text
    ELSE JoinedText(recognition, lines, i - 1)
           \o (IF LineOf(lines, i) = LineOf(lines, i - 1)
               THEN <<" ">> ELSE <<"\n">>)
           \o recognition[i].text

\* C12: processRecognition puts item i in the line of item i - 1, joined by one
\* space, exactly when |y_i - y_(i-1)| <= 0.5 * (mean height of the boxes
\* already in the current line); otherwise item i starts the next line, joined
\* by one newline.
C12_SameLineWhenClose ==
    (unit.pc = "done" /\ unit.name = "processRecognition"
       /\ Len(unit.recognition) > 0) =>
      LET recognition == unit.recognition
          lines == unit.result.lines
      IN  /\ ItemsBefore(lines, Len(lines)) = Len(recognition)
          /\ \A i \in 2 .. Len(recognition) :
               LET before == LineOf(lines, i - 1)
                   first == ItemsBefore(lines, before - 1) + 1
               IN  IF CloseToPrevious(recognition, first, i)
                   THEN LineOf(lines, i) = before
                   ELSE LineOf(lines, i) = before + 1
          /\ unit.result.text = JoinedText(recognition, lines, Len(recognition))

\* y = (10, 12, 40) with heights 20 has given the lines [[0, 1], [2]].
C12_TwoLinesExample ==
    /\ unit.pc = "done" /\ unit.name = "processRecognition"
    /\ Len(unit.recognition) = 3
    /\ [i \in 1 .. 3 |-> unit.recognition[i].box.y] = <<10, 12, 40>>
    /\ \A i \in 1 .. 3 : unit.recognition[i].box.height = 20
    /\ unit.result.lines = <<SubSeq(unit.recognition, 1, 2),
                              SubSeq(unit.recognition, 3, 3)>>

\* C13: the lines of processRecognition, one after the other, are the input
\* sequence; no line is empty; an empty input gives no lines.
C13_LinesPartitionInput ==
    (unit.pc = "done" /\ unit.name = "processRecognition") =>
      /\ Flatten(unit.result.lines) = unit.recognition
      /\ \A n \in DOMAIN unit.result.lines : Len(unit.result.lines[n]) > 0
      /\ (Len(unit.recognition) = 0 => unit.result.lines = <<>>)

\* Three different items have been grouped into more than one line.
C13_SeveralLinesReturned ==
    /\ unit.pc = "done" /\ unit.name = "processRecognition"
    /\ Len(unit.recognition) = 3
    /\ Cardinality({unit.recognition[i] : i \in 1 .. 3}) = 3
    /\ Len(unit.result.lines) = 2
    /\ Len(unit.result.lines[2]) = 2

(***************************************************************************)
(* The operations of Image, one call each, on every image of at most       *)
(* MaxImageWidth x MaxImageHeight pixels with 1, 3 or 4 channels whose     *)
(* pixels are all 0 or all 255.                                            *)
(***************************************************************************)
MaxImageWidth == 3

MaxImageHeight == 2

MaxDilate == 2

ImageChannels == {1, 3, 4}

\* The image of the given size whose pixels in lit hold 255 in every channel
\* and the others 0; data.length = width * height * channels.
TestImage(width, height, channels, lit) ==
    NewImage(width, height, channels,
             [d \in 0 .. width * height * channels - 1 |->
                IF d \div channels \in lit THEN 255 ELSE 0])

TestImages ==
    UNION {{TestImage(size[1], size[2], channels, lit) :
              channels \in ImageChannels,
              lit \in SUBSET (0 .. size[1] * size[2] - 1)} :
             size \in (1 .. MaxImageWidth) \X (1 .. MaxImageHeight)}

\* Image.resize of an image whose pixels all hold the same bytes: both passes
\* weigh the pixels with weights normalised to sum 1, so every pixel of the
\* result holds those bytes again.
ResizeUniform(img, optWidth, optHeight) ==
    LET dims == ResizeDims(img, optWidth, optHeight)
    IN  NewImage(dims.width, dims.height, img.channels,
                 [d \in 0 .. dims.width * dims.height * img.channels - 1 |->
                    img.data[d % img.channels]])

\* All the pixels of the image hold the same bytes.
Uniform(img) ==
    \A d \in DOMAIN img.data : img.data[d] = img.data[d % img.channels]

\* The colours padding() is called with: the default [0, 0, 0, 0] and white.
PaddingColors == {<<0, 0, 0, 0>>, <<255, 255, 255, 255>>}

\* The k dilate() is called with: small ones, and INF as a Uint16Array holds it.
DilateKs == (0 .. MaxDilate) \cup {Uint16(DilateINF)}

\* The calls made: the operation and its options.
ImageCalls ==
    {[name |-> "crop", box |-> Box(x, y, width, height)] :
       x \in 0 .. 1, y \in 0 .. 1,
       width \in 1 .. MaxImageWidth, height \in 1 .. MaxImageHeight}
    \cup {[name |-> "resize", width |-> width, height |-> height] :
            width \in 0 .. MaxImageWidth, height \in 0 .. MaxImageHeight}
    \cup {[name |-> "padding", vertical |-> vertical, horizontal |-> horizontal,
           color |-> color] :
            vertical \in PaddingChoices, horizontal \in PaddingChoices,
            color \in PaddingColors}
    \cup {[name |-> "threshold", threshold |-> threshold] : threshold \in {0, 128}}
    \cup {[name |-> "dilate", k |-> k] : k \in DilateKs}
    \cup {[name |-> "contours", minArea |-> minArea] : minArea \in {1, 2}}

\* A call that has returned: the result, and whether its buffer is a new one.
Returned(result) ==
    [unit EXCEPT !.pc = "done", !.result = result, !.buffer = "new"]

ImageCrop ==
    /\ unit.pc = "start" /\ unit.name = "crop"
    /\ unit' = IF CropInBounds(unit.image, unit.options.box)
               THEN Returned(Crop(unit.image, unit.options.box))
               ELSE [unit EXCEPT !.pc = "threw"]
    /\ UNCHANGED <<det, rrun, ctc, serviceVars>>

ImageResize ==
    /\ unit.pc = "start" /\ unit.name = "resize"
    /\ unit' = IF ResizeDims(unit.image, unit.options.width, unit.options.height).ok
               THEN Returned(ResizeUniform(unit.image, unit.options.width,
                                           unit.options.height))
               ELSE [unit EXCEPT !.pc = "threw"]
    /\ UNCHANGED <<det, rrun, ctc, serviceVars>>

ImagePadding ==
    /\ unit.pc = "start" /\ unit.name = "padding"
    /\ unit' = Returned(Padding(unit.image, unit.options.vertical, unit.options.vertical,
                                unit.options.horizontal, unit.options.horizontal,
                                unit.options.color))
    /\ UNCHANGED <<det, rrun, ctc, serviceVars>>

ImageThreshold ==
    /\ unit.pc = "start" /\ unit.name = "threshold"
    /\ unit' = Returned(Threshold(unit.image, unit.options.threshold, 1))
    /\ UNCHANGED <<det, rrun, ctc, serviceVars>>

ImageDilate ==
    /\ unit.pc = "start" /\ unit.name = "dilate"
    /\ unit' = IF unit.image.channels # 1 THEN [unit EXCEPT !.pc = "threw"]
               ELSE Returned(Dilate(unit.image, unit.options.k))
    /\ UNCHANGED <<det, rrun, ctc, serviceVars>>

ImageContours ==
    /\ unit.pc = "start" /\ unit.name = "contours"
    /\ unit' = [unit EXCEPT !.pc = "done",
                            !.boxes = Contours(unit.image, unit.options.minArea)]
    /\ UNCHANGED <<det, rrun, ctc, serviceVars>>

InitImage ==
    /\ \E image \in TestImages, c \in ImageCalls :
         /\ c.name = "resize" => Uniform(image)
         /\ c.name = "contours" => image.channels = 1
         /\ unit = [pc |-> "start", name |-> c.name, image |-> image, options |-> c,
                    result |-> image, buffer |-> "source", boxes |-> <<>>]
    /\ det = DetIdle /\ rrun = RecRunIdle /\ ctc = CtcIdle /\ ServiceUnused

NextImage ==
    \/ ImageCrop
    \/ ImageResize
    \/ ImagePadding
    \/ ImageThreshold
    \/ ImageDilate
    \/ ImageContours

SpecImage == InitImage /\ [][NextImage]_vars

\* An operation of ops has returned an Image.
ImageReturnedBy(ops) == unit.pc = "done" /\ unit.name \in ops

\* data.length = width * height * channels.
WellSized(img) == Length(img.data) = img.width * img.height * img.channels

\* C14: an Image returned by crop, resize, padding, threshold or dilate,
\* applied to an image with channels in {1, 3, 4} and
\* data.length = width * height * channels, has again
\* data.length = width * height * channels, in a new buffer.
C14_ReturnedImageWellSized ==
    (/\ ImageReturnedBy({"crop", "resize", "padding", "threshold", "dilate"})
     /\ unit.image.channels \in ImageChannels /\ WellSized(unit.image)) =>
      WellSized(unit.result) /\ unit.buffer = "new"

\* C15: for channels in {1, 3, 4} the result of padding() holds the source
\* exactly in its interior (at the left and top margins) and the fill colour
\* in every pixel outside it.
C15_PaddingKeepsInteriorAndFills ==
    (/\ ImageReturnedBy({"padding"})
     /\ unit.image.channels \in ImageChannels /\ WellSized(unit.image)) =>
      LET src == unit.image
          res == unit.result
          top == unit.options.vertical
          left == unit.options.horizontal
      IN  /\ res.width = src.width + 2 * left
          /\ res.height = src.height + 2 * top
          /\ \A x \in 0 .. res.width - 1, y \in 0 .. res.height - 1,
                c \in 0 .. src.channels - 1 :
               LET idx == (y * res.width + x) * src.channels + c
                   inside == /\ x - left \in 0 .. src.width - 1
                             /\ y - top \in 0 .. src.height - 1
                   srcIdx == ((y - top) * src.width + (x - left)) * src.channels + c
               IN  /\ idx \in DOMAIN res.data
                   /\ res.data[idx] = IF inside THEN src.data[srcIdx]
                                      ELSE unit.options.color[c + 1]

\* The indices of the non-zero pixels of a single-channel image.
Foreground(img) == {i \in 0 .. img.width * img.height - 1 : img.data[i] > 0}

\* The pixel indices a box covers in an image of the given width.
BoxPixels(box, width) ==
    {y * width + x : x \in box.x .. box.x + box.width - 1,
                     y \in box.y .. box.y + box.height - 1}

\* The pixels covered by the union of the boxes.
Covered(boxes, width) == UNION {BoxPixels(boxes[i], width) : i \in DOMAIN boxes}

\* The pixels of fg joined to a pixel of S by a chain of 8-neighbours in fg.
RECURSIVE Connected(_, _, _)
Connected(S, fg, width) ==
    LET near == {q \in fg : \E p \in S :
                   /\ Abs((p % width) - (q % width)) <= 1
                   /\ Abs((p \div width) - (q \div width)) <= 1}
    IN  IF near \subseteq S THEN S ELSE Connected(S \cup near, fg, width)

\* The 8-connected components of fg.
Components(fg, width) == {Connected({p}, fg, width) : p \in fg}

\* The bounding box of a set of pixels.
BoundingBox(pixels, width) ==
    LET xs == {p % width : p \in pixels}
        ys == {p \div width : p \in pixels}
    IN  Box(SetMin(xs), SetMin(ys), SetMax(xs) - SetMin(xs) + 1,
            SetMax(ys) - SetMin(ys) + 1)

\* contours({minArea: 1}) has returned for a single-channel binary image.
ContoursReturned ==
    /\ unit.pc = "done" /\ unit.name = "contours" /\ unit.options.minArea = 1
    /\ unit.image.channels = 1

\* C16 as stated: with minArea = 1 the union of the boxes returned by
\* contours() covers as many pixels as the foreground holds, and no pixel
\* belongs to two returned boxes.
C16_BoxesCoverForegroundExactly ==
    ContoursReturned =>
      /\ Cardinality(Covered(unit.boxes, unit.image.width))
           = Cardinality(Foreground(unit.image))
      /\ \A i, j \in DOMAIN unit.boxes :
           i # j => BoxPixels(unit.boxes[i], unit.image.width)
                      \cap BoxPixels(unit.boxes[j], unit.image.width) = {}

\* C16 amended: with minArea = 1 contours() returns one box per 8-connected
\* component of the foreground, the bounding box of that component; the boxes
\* cover every foreground pixel, and at least as many pixels as the foreground
\* holds.
C16_OneBoundingBoxPerComponent ==
    ContoursReturned =>
      LET fg == Foreground(unit.image)
          width == unit.image.width
          comps == Components(fg, width)
          returned == {unit.boxes[i] : i \in DOMAIN unit.boxes}
      IN  /\ Len(unit.boxes) = Cardinality(comps)
          /\ \A box \in returned \cup {BoundingBox(c, width) : c \in comps} :
               CountOf(unit.boxes, box)
                 = Cardinality({c \in comps : BoundingBox(c, width) = box})
          /\ fg \subseteq Covered(unit.boxes, width)
          /\ Cardinality(Covered(unit.boxes, width)) >= Cardinality(fg)

\* contours() has returned the box of a component that does not fill it.
C16_BoxLargerThanComponent ==
    /\ ContoursReturned
    /\ Len(unit.boxes) = 1
    /\ Cardinality(Covered(unit.boxes, unit.image.width))
         > Cardinality(Foreground(unit.image))

\* Some foreground pixel of the image lies within Chebyshev distance k of p.
NearForeground(img, p, k) ==
    \E q \in Foreground(img) :
      /\ Abs((p % img.width) - (q % img.width)) <= k
      /\ Abs((p \div img.width) - (q \div img.width)) <= k

\* C17: for a single-channel binary image and every k >= 0, dilate({k}) sets
\* pixel p to 255 exactly when some foreground pixel lies within Chebyshev
\* distance k of p, and to 0 otherwise; so an image with no foreground dilates
\* to all 0 for every k, and k = 0 gives the image back.
C17_DilateIsChebyshevBall ==
    (unit.pc = "done" /\ unit.name = "dilate") =>
      /\ \A p \in 0 .. unit.image.width * unit.image.height - 1 :
           unit.result.data[p] =
             IF NearForeground(unit.image, p, unit.options.k) THEN 255 ELSE 0
      /\ (Foreground(unit.image) = {} =>
            \A p \in DOMAIN unit.result.data : unit.result.data[p] = 0)
      /\ (unit.options.k = 0 => unit.result.data = unit.image.data)

(***************************************************************************)
(* DetectionService.calculateResizeDimensions under the default            *)
(* maxSideLength, on every image size of ResizeSizes x ResizeSizes.  On    *)
(* these sizes the double-precision products srcWidth * ratio and          *)
(* srcHeight * ratio have the floor of the exact quotient.                 *)
(***************************************************************************)
DefaultMaxSideLength == 960

ResizeSizes ==
    {1, 2, 31, 32, 33, 64, 100, 480, 640, 959, 960, 961, 1000, 1920, 2000, 4000}

CalculateResizeDimensionsCall ==
    /\ unit.pc = "start" /\ unit.name = "calculateResizeDimensions"
    /\ unit' = [unit EXCEPT !.pc = "done",
                            !.result = CalculateResizeDimensions(
                                         DefaultMaxSideLength,
                                         unit.image.width, unit.image.height)]
    /\ UNCHANGED <<det, rrun, ctc, serviceVars>>

InitDims ==
    /\ \E width \in ResizeSizes, height \in ResizeSizes :
         unit = [pc |-> "start", name |-> "calculateResizeDimensions",
                 image |-> [width |-> width, height |-> height],
                 result |-> CalculateResizeDimensions(DefaultMaxSideLength, 1, 1)]
    /\ det = DetIdle /\ rrun = RecRunIdle /\ ctc = CtcIdle /\ ServiceUnused

NextDims == CalculateResizeDimensionsCall

SpecDims == InitDims /\ [][NextDims]_vars

\* max(floor(floor(src * scale) / 32) * 32, 32) with scale = 960 / longer.
SnappedSide(src, longer) ==
    Max(FloorDiv(FloorDiv(src * DefaultMaxSideLength, longer), 32) * 32, 32)

\* C18: for srcW >= 1, srcH >= 1 and maxSideLength = 960,
\* calculateResizeDimensions gives dstW and dstH that are multiples of 32 and
\* >= 32, each max(floor(floor(src * scale) / 32) * 32, 32) with
\* scale = maxSideLength / max(srcW, srcH).
C18_SidesAreMultiplesOf32AtLeast32 ==
    (unit.pc = "done" /\ unit.name = "calculateResizeDimensions") =>
      LET longer == Max(unit.image.width, unit.image.height)
          r == unit.result
      IN  /\ r.dstWidth % 32 = 0 /\ r.dstWidth >= 32
          /\ r.dstHeight % 32 = 0 /\ r.dstHeight >= 32
          /\ r.dstWidth = SnappedSide(unit.image.width, longer)
          /\ r.dstHeight = SnappedSide(unit.image.height, longer)

(***************************************************************************)
(* The threshold step of postprocessDetection on a probability map of one  *)
(* pixel, for every probability n / 510 (every 8-bit value, and every      *)
(* value halfway between two) and every threshold of MapThresholds.        *)
(***************************************************************************)
MapProbabilities == {Frac(n, 510) : n \in 0 .. 510}

MapThresholds == {DefaultTextPixelThreshold, Frac(3, 10), Frac(128, 255)}

PostprocessThreshold ==
    /\ unit.pc = "start" /\ unit.name = "postprocessDetection"
    /\ unit' = [unit EXCEPT !.pc = "done",
                            !.result = ThresholdedImage(unit.detection, 1, 1,
                                                        unit.textPixelThreshold)]
    /\ UNCHANGED <<det, rrun, ctc, serviceVars>>

InitThreshold ==
    /\ \E prob \in MapProbabilities, textPixelThreshold \in MapThresholds :
         unit = [pc |-> "start", name |-> "postprocessDetection",
                 detection |-> [i \in {0} |-> prob],
                 textPixelThreshold |-> textPixelThreshold,
                 result |-> NewImage(1, 1, 1, [i \in {0} |-> 0])]
    /\ det = DetIdle /\ rrun = RecRunIdle /\ ctc = CtcIdle /\ ServiceUnused

NextThreshold == PostprocessThreshold

SpecThreshold == InitThreshold /\ [][NextThreshold]_vars

\* C19: a pixel of the probability map becomes foreground exactly when its
\* 8-bit value round(prob * 255) is greater than
\* round(255 * textPixelThreshold); under the default threshold 0.5 that is
\* value > 128, so a pixel of value 128 is background.
C19_ForegroundAboveRoundedThreshold ==
    (unit.pc = "done" /\ unit.name = "postprocessDetection") =>
      LET prob == unit.detection[0]
          value == RoundDiv(prob.num * 255, prob.den)
          rounded == RoundDiv(255 * unit.textPixelThreshold.num,
                              unit.textPixelThreshold.den)
      IN  /\ (unit.result.data[0] = 255) <=> (value > rounded)
          /\ (unit.textPixelThreshold = DefaultTextPixelThreshold /\ value = 128)
               => unit.result.data[0] = 0

(***************************************************************************)
(* DetectionService.applyPaddingToRect on the boxes of PadRects inside a   *)
(* 500 x 500 image, under every pair of configured paddingBoxVertical and  *)
(* paddingBoxHorizontal of PadOptions.                                     *)
(***************************************************************************)
PadRects ==
    {Box(x, y, 40, h) : x \in {0, 5, 100, 460}, y \in {0, 5, 100, 480},
                        h \in {5, 7, 20}}

PadOptions == {Frac(0, 1), DefaultPaddingBoxVertical, DefaultPaddingBoxHorizontal,
               Frac(1, 1)}

ApplyPaddingToRectCall ==
    /\ unit.pc = "start" /\ unit.name = "applyPaddingToRect"
    /\ unit' = [unit EXCEPT !.pc = "done",
                            !.result = ApplyPaddingToRect(
                                         unit.rect, unit.maxWidth, unit.maxHeight,
                                         unit.paddingBoxVertical,
                                         unit.paddingBoxHorizontal)]
    /\ UNCHANGED <<det, rrun, ctc, serviceVars>>

InitPad ==
    /\ \E rect \in PadRects, vertical \in PadOptions, horizontal \in PadOptions :
         unit = [pc |-> "start", name |-> "applyPaddingToRect", rect |-> rect,
                 maxWidth |-> 500, maxHeight |-> 500,
                 paddingBoxVertical |-> vertical,
                 paddingBoxHorizontal |-> horizontal, result |-> rect]
    /\ det = DetIdle /\ rrun = RecRunIdle /\ ctc = CtcIdle /\ ServiceUnused

NextPad == ApplyPaddingToRectCall

SpecPad == InitPad /\ [][NextPad]_vars

\* C20: for paddingBoxVertical >= 0 and paddingBoxHorizontal >= 0 (0
\* included) the inflated box is x' = max(0, x - hpad), y' = max(0, y - vpad),
\* width' = min(dstW, x + w + hpad) - x', height' = min(dstH, y + h + vpad) - y'
\* with vpad = round(h * paddingBoxVertical) and
\* hpad = round(h * paddingBoxHorizontal).
C20_InflatedByConfiguredPadding ==
    (unit.pc = "done" /\ unit.name = "applyPaddingToRect") =>
      LET rect == unit.rect
          vpad == RoundDiv(rect.height * unit.paddingBoxVertical.num,
                           unit.paddingBoxVertical.den)
          hpad == RoundDiv(rect.height * unit.paddingBoxHorizontal.num,
                           unit.paddingBoxHorizontal.den)
          x == Max(0, rect.x - hpad)
          y == Max(0, rect.y - vpad)
      IN  unit.result =
            Box(x, y, Min(unit.maxWidth, rect.x + rect.width + hpad) - x,
                Min(unit.maxHeight, rect.y + rect.height + vpad) - y)

(***************************************************************************)
(* Properties of the session runs of a recognize() call (Spec).            *)
(***************************************************************************)

\* The boxes of the detection that RecognitionService.run keeps.
ValidBoxes(detection) ==
    SelectSeq(detection, LAMBDA box : box.width > 0 /\ box.height > 0)

\* C21: within a recognize() call the detection session is run once and its
\* run is over before a recognition run starts; the recognition session is
\* run once per valid box in the detector's order, the run for a box starting
\* only when the runs for the boxes before it are over.
C21_SessionRunsInSequence ==
    /\ sessions.detection.runs <= 1
    /\ call.pc \in {"detection", "recognition", "resolved"}
         => sessions.detection.runs = 1
    /\ call.pc = "detection" => sessions.recognition.runs = 0
    /\ sessions.recognition.runs > 0 => sessions.detection.runs = 1
    /\ call.pc = "recognition" =>
         /\ call.run.validBoxes = ValidBoxes(call.detection)
         /\ sessions.recognition.runs = call.run.index
         /\ Len(call.run.results) = call.run.index - 1
         /\ \A i \in DOMAIN call.run.results :
              call.run.results[i].box = call.run.validBoxes[i]
    /\ call.pc = "resolved" =>
         /\ sessions.recognition.runs = Len(ValidBoxes(call.detection))
         /\ Len(call.run.results) = sessions.recognition.runs

\* The second recognition run of a call is in flight, the first one is over.
C21_SecondRecognitionRunInFlight ==
    /\ call.pc = "recognition"
    /\ sessions.detection.runs = 1
    /\ sessions.recognition.runs = 2
    /\ Len(call.run.results) = 1

(***************************************************************************)
(* PaddleOcrService.createInstance: the service is constructed and         *)
(* initialized inside createInstance, and the caller holds it, and can     *)
(* call recognize() and destroy() on it, only once createInstance has      *)
(* resolved with it.                                                       *)
(***************************************************************************)
InstanceRecognize == init.pc = "resolved" /\ Recognize

InstanceDestroy == init.pc = "resolved" /\ Destroy

InitCreate == Init

NextCreate ==
    \/ Initialize
    \/ InitializeDetection
    \/ InitializeRecognition
    \/ InitializeCreateFail
    \/ InstanceRecognize
    \/ RecognizeDetectionReturn
    \/ RecognizeRecognitionReturn
    \/ RecognizeRunFail
    \/ InstanceDestroy
    \/ DestroyDetectionReleased
    \/ DestroyRecognitionReleased
    \/ DestroyReleaseFail

SpecCreate == InitCreate /\ [][NextCreate]_vars

\* C22: a session created by createInstance is owned by the instance returned
\* to the caller or has been released: when createInstance has rejected, the
\* sessions it created have been released.
C22_RejectedCreateReleasesSessions ==
    init.pc = "rejected" =>
      /\ sessions.detection.created => sessions.detection.released > 0
      /\ sessions.recognition.created => sessions.recognition.released > 0

\* destroy() has completed on a service that initialize() had resolved on.
DestroyCompleted == init.pc = "resolved" /\ dtor.calls > dtor.rejected

\* C23: after destroy() has completed isInitialized() is false, and a later
\* recognize() call is rejected as not initialized without a run on a
\* released session.
C23_NoRunAfterDestroy ==
    /\ [](DestroyCompleted => ~IsInitialized(svc))
    /\ [][(DestroyCompleted /\ call.pc = "idle" /\ call'.pc # "idle") =>
            /\ call'.pc = "rejected" /\ call'.error = "notInitialized"
            /\ sessions' = sessions]_vars

\* The reads of Image.tensor on an image of the given size and channels: for
\* pixel h * width + w and each of the 3 channels c of the tensor, the byte at
\* index (h * width + w) * channels + c.
TensorReads(width, height, channels) ==
    {[pixel |-> pixel, c |-> c, index |-> pixel * channels + c] :
       pixel \in 0 .. width * height - 1, c \in 0 .. 2}

\* C24: for an image recognize() accepts, tensor() reads each of its
\* 3 * H * W values from a byte of the same pixel and never at or beyond
\* data.length.  Checked on the tensor() of preprocessDetection, whose image is
\* the resize of the accepted one: dstWidth x dstHeight, the same channels.
C24_TensorReadsOwnPixel ==
    call.pc = "detection" =>
      LET resized == PreprocessDetection(call.image,
                                         ServiceDetectionOptions(svc)).resized
          channels == call.image.channels
          length == resized.width * resized.height * channels
      IN  \A r \in TensorReads(resized.width, resized.height, channels) :
            /\ r.index < length
            /\ r.index \div channels = r.pixel

(***************************************************************************)
(* RecognitionService.processBox up to session.run, on a 2 x 100 image and *)
(* the boxes of CropBoxes: low and wide ones, and ones about 96 times as   *)
(* high as wide, inside the image and across its edges.                    *)
(***************************************************************************)
CropBoxes ==
    {Box(x, y, width, height) :
       x \in 0 .. 1, y \in 0 .. 3, width \in 1 .. 2,
       height \in {1, 2, 47, 48, 95, 96, 97, 98, 100}}

ProcessBoxCall ==
    /\ unit.pc = "start" /\ unit.name = "processBox"
    /\ unit' = [unit EXCEPT !.pc = "done",
                            !.result = ProcessBoxInput(unit.image, unit.box,
                                                       RecognitionOptions(RecDict))]
    /\ UNCHANGED <<det, rrun, ctc, serviceVars>>

InitBox ==
    /\ \E channels \in ImageChannels, box \in CropBoxes :
         unit = [pc |-> "start", name |-> "processBox",
                 image |-> TestImage(2, 100, channels, {}), box |-> box,
                 result |-> [ok |-> FALSE, dims |-> <<>>]]
    /\ det = DetIdle /\ rrun = RecRunIdle /\ ctc = CtcIdle /\ ServiceUnused

NextBox == ProcessBoxCall

SpecBox == InitBox /\ [][NextBox]_vars

\* C25: for a box with width > 0 and height > 0 the resized crop fed to the
\* recognition session has height imageHeight and width >= 1: the tensor
\* [1, 3, imageHeight, W] is not empty.
C25_ResizedCropNotEmpty ==
    (/\ unit.pc = "done" /\ unit.name = "processBox" /\ unit.result.ok
     /\ unit.box.width > 0 /\ unit.box.height > 0) =>
      /\ unit.result.dims[3] = DefaultImageHeight
      /\ unit.result.dims[4] >= 1

====
